---- MODULE Spec2Model ----
(***************************************************************************)
(* Model of skbonus.meta.ExplainableBoostingMetaRegressor                  *)
(* (src/skbonus/meta/_explainable_regressor.py): one estimator instance,   *)
(* its constructor parameters, its fitted attributes, and the calls fit    *)
(* and predict.  fit is split at the iterations of the boosting loop of    *)
(* _fit, nothing else runs while a fit call is in progress.                *)
(*                                                                         *)
(* Real numbers are exact rationals <<n, d>> in lowest terms with d > 0;   *)
(* floating-point rounding is not modelled.  Python sequences are TLA+     *)
(* sequences, so Python index k is TLA+ index k + 1.                       *)
(***************************************************************************)
EXTENDS Integers, Sequences, FiniteSets, TLC

\* ------------------------------------------------------------------------
\* Exact rational arithmetic (the numpy float arithmetic of the source)
\* ------------------------------------------------------------------------
RECURSIVE GCD(_, _)
GCD(a, b) == IF b = 0 THEN a ELSE GCD(b, a % b)

IAbs(n) == IF n < 0 THEN -n ELSE n

Rat(n, d) ==
    LET s == IF d < 0 THEN -1 ELSE 1
        g == GCD(IAbs(n), IAbs(d))
    IN  <<(s * n) \div g, (s * d) \div g>>

Int2Rat(n) == <<n, 1>>
Zero == Int2Rat(0)

RAdd(a, b) == Rat(a[1] * b[2] + b[1] * a[2], a[2] * b[2])
RSub(a, b) == Rat(a[1] * b[2] - b[1] * a[2], a[2] * b[2])
RMul(a, b) == Rat(a[1] * b[1], a[2] * b[2])
RDiv(a, b) == Rat(a[1] * b[2], a[2] * b[1])
RAbs(a) == <<IAbs(a[1]), a[2]>>
RLt(a, b) == a[1] * b[2] < b[1] * a[2]
RLe(a, b) == a[1] * b[2] <= b[1] * a[2]
RMin(a, b) == IF RLe(a, b) THEN a ELSE b
RMax(a, b) == IF RLe(a, b) THEN b ELSE a

\* the array <<F(1), ..., F(n)>>, every element computed once
Tabulate(n, F(_)) ==
    LET f[lo \in 1..(n + 1), hi \in 0..n] ==
            IF lo > hi THEN <<>>
            ELSE IF lo = hi THEN <<F(lo)>>
            ELSE f[lo, (lo + hi) \div 2] \o f[((lo + hi) \div 2) + 1, hi]
    IN  f[1, n]

\* numpy reductions over a one-dimensional array (a non-empty sequence)
RECURSIVE RSum(_)
RSum(v) == IF v = <<>> THEN Zero ELSE RAdd(v[1], RSum(Tail(v)))

RECURSIVE VMin(_)
VMin(v) == IF Len(v) = 1 THEN v[1] ELSE RMin(v[1], VMin(Tail(v)))

RECURSIVE VMax(_)
VMax(v) == IF Len(v) = 1 THEN v[1] ELSE RMax(v[1], VMax(Tail(v)))

\* y.mean()
Mean(v) == RDiv(RSum(v), Int2Rat(Len(v)))

VAddScaled_Minus(a, c, b) == Tabulate(Len(a), LAMBDA k : RSub(a[k], RMul(c, b[k])))

VSubScaled_Unscaled(a, c, b) == Tabulate(Len(a), LAMBDA k : RSub(a[k], b[k]))

\* elementwise a + c * b and a - c * b on arrays of equal length
VAddScaled(a, c, b) == Tabulate(Len(a), LAMBDA k : RAdd(a[k], RMul(c, b[k])))
VSubScaled(a, c, b) == Tabulate(Len(a), LAMBDA k : RSub(a[k], RMul(c, b[k])))

\* X[:, feature_number] for a table X (a sequence of rows), 0-based column
Column(X, feature_number) == Tabulate(Len(X), LAMBDA r : X[r][feature_number + 1])

\* X.shape[1]
NumColumns(X) == Len(X[1])

\* num evenly spaced points from start, stop excluded
Linspace_NoEndpoint(start, stop, num) ==
    Tabulate(num, LAMBDA k :
        RAdd(start, RDiv(RMul(Int2Rat(k - 1), RSub(stop, start)), Int2Rat(num))))

\* np.linspace(start, stop, num): num evenly spaced points, both ends included
\* when num > 1; the single point start when num = 1
Linspace(start, stop, num) ==
    Tabulate(num, LAMBDA k :
        IF num = 1 THEN start
        ELSE RAdd(start, RDiv(RMul(Int2Rat(k - 1), RSub(stop, start)),
                              Int2Rat(num - 1))))

ZerosLike_Ones(domain) == Tabulate(Len(domain), LAMBDA k : Int2Rat(1))

\* np.zeros_like(domain)
ZerosLike(domain) == Tabulate(Len(domain), LAMBDA k : Zero)

\* the 0-based index of the last occurrence of the minimum
RECURSIVE ArgminLastFrom(_, _, _)
ArgminLastFrom(v, k, best) ==
    IF k > Len(v) THEN best - 1
    ELSE ArgminLastFrom(v, k + 1, IF RLe(v[k], v[best]) THEN k ELSE best)

Argmin_Last(v) == ArgminLastFrom(v, 2, 1)

\* v.argmin(): the 0-based index of the first occurrence of the minimum
RECURSIVE ArgminFrom(_, _, _)
ArgminFrom(v, k, best) ==
    IF k > Len(v) THEN best - 1
    ELSE ArgminFrom(v, k + 1, IF RLt(v[k], v[best]) THEN k ELSE best)

Argmin(v) == ArgminFrom(v, 2, 1)

\* ------------------------------------------------------------------------
\* The pluggable one-dimensional base regressors: clone, fit, predict.
\* A base regressor object is its kind; a fitted one is a record of the
\* sorted distinct training inputs and the value it learned at each.
\* ------------------------------------------------------------------------
DecisionTree == "DecisionTreeRegressor(max_depth=4)"
IsotonicIncreasing == "IsotonicRegression()"
IsotonicDecreasing == "IsotonicRegression(increasing=False)"

\* clone(estimator): same hyperparameters, no fitted state
Clone(estimator) == estimator

\* the values of an array, as a set
Values(v) == {v[k] : k \in 1..Len(v)}

RECURSIVE SortSet(_)
SortSet(S) ==
    IF S = {} THEN <<>>
    ELSE LET m == CHOOSE a \in S : \A b \in S : RLe(a, b)
         IN  <<m>> \o SortSet(S \ {m})

\* sum over the samples k with x[k] = u of f[k]
RECURSIVE GroupSum(_, _, _, _)
GroupSum(x, u, f, k) ==
    IF k > Len(x) THEN Zero
    ELSE RAdd(IF x[k] = u THEN f[k] ELSE Zero, GroupSum(x, u, f, k + 1))

\* total sample weight of each distinct input, in increasing input order
GroupWeights(x, sample_weight) ==
    LET u == SortSet(Values(x))
    IN  Tabulate(Len(u), LAMBDA a : GroupSum(x, u[a], sample_weight, 1))

\* weighted sum of the targets of each distinct input
GroupTargets(x, y, sample_weight) ==
    LET u == SortSet(Values(x))
        wy == Tabulate(Len(x), LAMBDA k : RMul(sample_weight[k], y[k]))
    IN  Tabulate(Len(u), LAMBDA a : GroupSum(x, u[a], wy, 1))

\* weighted average of the targets over the distinct inputs a..b
RECURSIVE RangeSum(_, _, _)
RangeSum(v, a, b) == IF a > b THEN Zero ELSE RAdd(v[a], RangeSum(v, a + 1, b))

BlockAverage(wy, w, a, b) == RDiv(RangeSum(wy, a, b), RangeSum(w, a, b))

\* the least-squares non-decreasing fit (pool adjacent violators), by its
\* max-min characterisation
IsotonicFit(wy, w, increasing) ==
    LET n == Len(w)
        MinOver(i, a) ==
            VMin(Tabulate(n - i + 1, LAMBDA b : BlockAverage(wy, w, a, i + b - 1)))
        MaxOver(i, a) ==
            VMax(Tabulate(n - i + 1, LAMBDA b : BlockAverage(wy, w, a, i + b - 1)))
    IN  Tabulate(n, LAMBDA i :
            IF increasing
            THEN VMax(Tabulate(i, LAMBDA a : MinOver(i, a)))
            ELSE VMin(Tabulate(i, LAMBDA a : MaxOver(i, a))))

\* h.fit(x, y, sample_weight=sample_weight) on a fresh clone h
FitBase(h, x, y, sample_weight) ==
    LET u == SortSet(Values(x))
        w == GroupWeights(x, sample_weight)
        wy == GroupTargets(x, y, sample_weight)
    IN  [kind |-> h,
         x |-> u,
         y |-> IF h = DecisionTree
               THEN Tabulate(Len(u), LAMBDA a : RDiv(wy[a], w[a]))
               ELSE IsotonicFit(wy, w, h = IsotonicIncreasing)]

\* the tree's leaf for input t: thresholds lie midway between neighbouring
\* distinct training inputs, and t <= threshold goes left
TreeLeaf(u, t) ==
    CHOOSE a \in 1..Len(u) :
        /\ a = Len(u) \/ RLe(t, RDiv(RAdd(u[a], u[a + 1]), Int2Rat(2)))
        /\ \A b \in 1..(a - 1) : ~RLe(t, RDiv(RAdd(u[b], u[b + 1]), Int2Rat(2)))

\* linear interpolation between the fitted points (inside the training range)
Interpolate(u, v, t) ==
    IF Len(u) = 1 THEN v[1]
    ELSE LET a == CHOOSE c \in 1..(Len(u) - 1) : RLe(u[c], t) /\ RLe(t, u[c + 1])
         IN  RAdd(v[a], RDiv(RMul(RSub(t, u[a]), RSub(v[a + 1], v[a])),
                             RSub(u[a + 1], u[a])))

\* h.predict(points.reshape(-1, 1)) for a fitted h
PredictBase(h, points) ==
    Tabulate(Len(points), LAMBDA k :
        IF h.kind = DecisionTree
        THEN h.y[TreeLeaf(h.x, points[k])]
        ELSE Interpolate(h.x, h.y, points[k]))

\* ------------------------------------------------------------------------
\* The estimator instance: its attribute dictionary
\* ------------------------------------------------------------------------
\* The constructor argument base_regressor: None, one regressor, or a list;
\* items holds the regressor(s), <<>> for None.
NoneRegressor == [type |-> "None", items |-> <<>>]
Single(h) == [type |-> "estimator", items |-> <<h>>]
List(hs) == [type |-> "list", items |-> hs]

\* the attributes fit assigns (names ending in an underscore); attrs is the
\* set of those the instance currently has, an attribute outside attrs does
\* not exist and its field holds a placeholder
FittedAttributes ==
    {"n_features_in_", "base_regressors_", "domains_", "outputs_", "mean_"}

\* __init__: stores the four parameters, assigns no fitted attribute
New(base_regressor, max_rounds, learning_rate, grid_points) ==
    [base_regressor |-> base_regressor,
     max_rounds |-> max_rounds,
     learning_rate |-> learning_rate,
     grid_points |-> grid_points,
     attrs |-> {},
     n_features_in_ |-> 0,
     base_regressors_ |-> <<>>,
     domains_ |-> <<>>,
     outputs_ |-> <<>>,
     mean_ |-> Zero]

\* _check_sample_weight(sample_weight, X): None (<<>> here) becomes all ones
None == <<>>
CheckSampleWeight(sample_weight, X) ==
    IF sample_weight = None THEN Tabulate(Len(X), LAMBDA r : Int2Rat(1))
    ELSE sample_weight

\* self._check_n_features(X, reset=True)
SetNFeatures(self, X) ==
    [self EXCEPT !.n_features_in_ = NumColumns(X),
                 !.attrs = @ \cup {"n_features_in_"}]

\* n * [h]
Repeat(n, h) == Tabulate(n, LAMBDA j : h)

\* fit, lines 110-123: resolve base_regressor into base_regressors_
RegressorListMismatch(self) ==
    /\ self.base_regressor.type = "list"
    /\ Len(self.base_regressor.items) # self.n_features_in_

ResolveRegressors(self) ==
    [self EXCEPT
        !.base_regressors_ =
            IF self.base_regressor.type # "list"
            THEN IF self.base_regressor.type # "None"
                 THEN Repeat(self.n_features_in_, self.base_regressor.items[1])
                 ELSE Repeat(self.n_features_in_, DecisionTree)
            ELSE self.base_regressor.items,
        !.attrs = @ \cup {"base_regressors_"}]

LearningRateInvalid_Strict(self) == RLt(self.learning_rate, Zero)

\* fit, line 125
LearningRateInvalid(self) == RLe(self.learning_rate, Zero)

\* the same, keeping curves the instance already has for grids of that shape
InitFittedState_WarmStart(self, X, y) ==
    LET domains == Tabulate(NumColumns(X), LAMBDA j :
                       Linspace(VMin(Column(X, j - 1)), VMax(Column(X, j - 1)),
                                self.grid_points))
    IN  [self EXCEPT
            !.domains_ = domains,
            !.outputs_ = IF "outputs_" \in self.attrs /\ Len(@) = Len(domains)
                         THEN @
                         ELSE Tabulate(Len(domains), LAMBDA j : ZerosLike(domains[j])),
            !.mean_ = Mean(y),
            !.attrs = @ \cup {"domains_", "outputs_", "mean_"}]

\* fit, lines 128-133: grids, zero curves and the global mean
InitFittedState(self, X, y) ==
    LET domains == Tabulate(NumColumns(X), LAMBDA j :
                       Linspace(VMin(Column(X, j - 1)), VMax(Column(X, j - 1)),
                                self.grid_points))
    IN  [self EXCEPT
            !.domains_ = domains,
            !.outputs_ = Tabulate(Len(domains), LAMBDA j : ZerosLike(domains[j])),
            !.mean_ = Mean(y),
            !.attrs = @ \cup {"domains_", "outputs_", "mean_"}]

\* fit, lines 106-135, up to the call of _fit: the instance as the call
\* leaves it, the error raised ("" when none), and the residual y_copy
FitSetup(self, X, y) ==
    LET s1 == SetNFeatures(self, X)
        s2 == ResolveRegressors(s1)
        s3 == InitFittedState(s2, X, y)
    IN  IF RegressorListMismatch(s1)
        THEN [self |-> s1, raised |-> "ValueError: number of regressors",
              y_copy |-> <<>>]
        ELSE IF LearningRateInvalid(s2)
        THEN [self |-> s2, raised |-> "ValueError: learning_rate",
              y_copy |-> <<>>]
        ELSE [self |-> s3, raised |-> "",
              y_copy |-> Tabulate(Len(y), LAMBDA r : RSub(y[r], s3.mean_))]

FeatureNumber_Shifted(self, i) == (i + 1) % self.n_features_in_

\* _fit, line 143
FeatureNumber(self, i) == i % self.n_features_in_

\* _fit, lines 143-151: boosting round i
BoostingRound_Replace(self, X, sample_weight, y_copy, i) ==
    LET feature_number == FeatureNumber(self, i)
        h0 == Clone(self.base_regressors_[feature_number + 1])
        x == Column(X, feature_number)
        h == FitBase(h0, x, y_copy, sample_weight)
    IN  [self |-> [self EXCEPT !.outputs_[feature_number + 1] =
                       VAddScaled(ZerosLike(@), self.learning_rate,
                                  PredictBase(h, self.domains_[feature_number + 1]))],
         y_copy |-> VSubScaled(y_copy, self.learning_rate, PredictBase(h, x)),
         feature_number |-> feature_number,
         regressor |-> h0]

BoostingRound(self, X, sample_weight, y_copy, i) ==
    LET feature_number == FeatureNumber(self, i)
        h0 == Clone(self.base_regressors_[feature_number + 1])
        x == Column(X, feature_number)
        h == FitBase(h0, x, y_copy, sample_weight)
    IN  [self |-> [self EXCEPT !.outputs_[feature_number + 1] =
                       VAddScaled(@, self.learning_rate,
                                  PredictBase(h, self.domains_[feature_number + 1]))],
         y_copy |-> VSubScaled(y_copy, self.learning_rate, PredictBase(h, x)),
         feature_number |-> feature_number,
         regressor |-> h0]

\* check_is_fitted(self): some attribute with a trailing underscore exists
IsFitted(self) == self.attrs # {}

NearestGridIndex_Signed(grid, X, feature_number) ==
    Tabulate(Len(X), LAMBDA r :
        Argmin(Tabulate(Len(grid), LAMBDA k :
                   RSub(grid[k], X[r][feature_number + 1]))))

\* predict, lines 176-178: for every row of X the index of the grid point
\* nearest to its value of the feature, first one on ties
NearestGridIndex(grid, X, feature_number) ==
    Tabulate(Len(X), LAMBDA r :
        Argmin(Tabulate(Len(grid), LAMBDA k :
                   RAbs(RSub(grid[k], X[r][feature_number + 1])))))

\* predict, lines 173-180: the loop over the features from feature_number on
RECURSIVE PredictLoop(_, _, _, _)
PredictLoop(self, X, feature_number, res) ==
    IF feature_number >= self.n_features_in_ THEN [raised |-> "", value |-> res]
    ELSE IF "domains_" \notin self.attrs
    THEN [raised |-> "AttributeError", value |-> <<>>]
    ELSE IF feature_number >= Len(self.domains_)
    THEN [raised |-> "IndexError", value |-> <<>>]
    ELSE LET grid == self.domains_[feature_number + 1]
             idx == NearestGridIndex(grid, X, feature_number)
             feature_outputs ==
                 Tabulate(Len(X), LAMBDA r :
                     self.outputs_[feature_number + 1][idx[r] + 1])
         IN  PredictLoop(self, X, feature_number + 1,
                         Tabulate(Len(X), LAMBDA r : RAdd(res[r], feature_outputs[r])))

\* predict: the error raised ("" when none) and the returned array
Predict(self, X) ==
    IF ~IsFitted(self)
    THEN [raised |-> "NotFittedError", value |-> <<>>]
    ELSE IF NumColumns(X) # self.n_features_in_
    THEN [raised |-> "ValueError: number of features", value |-> <<>>]
    ELSE LET out == PredictLoop(self, X, 0, Tabulate(Len(X), LAMBDA r : Zero))
         IN  IF out.raised # "" THEN out
             ELSE [raised |-> "",
                   value |-> Tabulate(Len(X), LAMBDA r : RAdd(out.value[r], self.mean_))]

\* ------------------------------------------------------------------------
\* Bounds and the inputs the calls are made with
\* ------------------------------------------------------------------------
MaxRounds == 3
MaxGridPoints == 3

Vector(v) == Tabulate(Len(v), LAMBDA k : Int2Rat(v[k]))
Table(t) == Tabulate(Len(t), LAMBDA r : Vector(t[r]))

BaseRegressorChoices ==
    {NoneRegressor,
     Single(IsotonicIncreasing),
     List(<<IsotonicIncreasing>>),
     List(<<DecisionTree>>),
     List(<<IsotonicIncreasing, IsotonicDecreasing>>),
     List(<<IsotonicDecreasing, DecisionTree>>),
     List(<<DecisionTree, IsotonicIncreasing, IsotonicDecreasing>>)}

LearningRates == {Rat(-1, 2), Zero, Rat(1, 2)}

\* the valid fit arguments X, y, sample_weight (None: uniform weights): one
\* to three feature columns, unsorted, repeated and constant columns
Fit(X, y, sample_weight) ==
    [X |-> Table(X), y |-> Vector(y), sample_weight |-> Vector(sample_weight)]

TrainingSets ==
    {Fit(<<<<2>>, <<0>>, <<1>>>>, <<3, 0, 1>>, None),
     Fit(<<<<2>>, <<0>>, <<1>>>>, <<0, 1, 3>>, <<1, 2, 1>>),
     Fit(<<<<0>>, <<0>>, <<2>>>>, <<0, 1, 3>>, None),
     Fit(<<<<1>>, <<1>>>>, <<1, 2>>, <<2, 1>>),
     Fit(<<<<0, 1>>, <<2, 1>>, <<1, 1>>>>, <<3, 0, 1>>, <<1, 2, 1>>),
     Fit(<<<<0, 2>>, <<1, 0>>, <<2, 1>>>>, <<0, 1, 3>>, <<2, 1, 1>>),
     Fit(<<<<0, 2>>, <<1, 0>>, <<2, 1>>>>, <<3, 0, 1>>, None),
     Fit(<<<<0, 1, 2>>, <<1, 1, 0>>, <<2, 1, 1>>>>, <<0, 1, 3>>, None)}

\* the values of the rows predict is asked about: below, inside (on and
\* between grid points) and above the training range
PredictValues ==
    <<Int2Rat(-1), Zero, Rat(1, 2), Int2Rat(1), Int2Rat(2), Int2Rat(3)>>

RECURSIVE Power(_, _)
Power(b, e) == IF e = 0 THEN 1 ELSE b * Power(b, e - 1)

\* the table of all rows of c columns over PredictValues
AllRows(c) ==
    LET n == Len(PredictValues)
    IN  Tabulate(Power(n, c), LAMBDA r :
            Tabulate(c, LAMBDA j :
                PredictValues[(((r - 1) \div Power(n, j - 1)) % n) + 1]))

PredictTables ==
    {AllRows(1), AllRows(2),
     <<<<Rat(3, 2)>>>>,
     <<<<Rat(1, 2), Int2Rat(1), Int2Rat(3)>>, <<Zero, Int2Rat(1), Int2Rat(2)>>>>}

\* ------------------------------------------------------------------------
\* State
\* ------------------------------------------------------------------------
VARIABLES
    self,           \* the estimator instance
    twin,           \* an instance constructed with the same parameters on
                    \* which only the latest fit call was made
    pc,             \* "idle", or "_fit" while the boosting loop runs
    X,              \* fit's arguments in the latest call that passed the
    y,              \*   parameter checks (the caller's arrays)
    sample_weight,  \* fit's local after _check_sample_weight
    y_copy,         \* the running residual of the fit call on self
    twin_y_copy,    \* the running residual of the fit call on twin
    i,              \* the loop variable of _fit
    calls,          \* the base-regressor calls of the rounds run so far:
                    \*   which feature's regressor was cloned and fitted
    fit_completed,  \* whether some fit call on self has returned
    result          \* the latest call: its name, its argument X, the error
                    \*   it raised ("" when none), what it returned ("" when
                    \*   it raised or is still running) and, for predict,
                    \*   the returned array

\* the objects of skbonus.pandas.time
VARIABLES
    transformer,              \* the transformer instance (None: none made)
    additional_cycles,        \* the dictionary object the caller passed to
                              \*   CyclicalEncoder, as it is now
    additional_cycles_passed, \* its content when the caller passed it
    outcome                   \* the latest call on the transformer: its
                              \*   name, its argument X, the error it raised
                              \*   ("" when none) and the returned frame

regressor_vars == <<self, twin, pc, X, y, sample_weight, y_copy, twin_y_copy, i,
                    calls, fit_completed, result>>

time_vars == <<transformer, additional_cycles, additional_cycles_passed, outcome>>

vars == <<self, twin, pc, X, y, sample_weight, y_copy, twin_y_copy, i, calls,
          fit_completed, result, transformer, additional_cycles,
          additional_cycles_passed, outcome>>

Init ==
    /\ \E b \in BaseRegressorChoices, m \in 0..MaxRounds,
          l \in LearningRates, g \in 1..MaxGridPoints :
          /\ self = New(b, m, l, g)
          /\ twin = New(b, m, l, g)
    /\ pc = "idle"
    /\ X = <<>>
    /\ y = <<>>
    /\ sample_weight = <<>>
    /\ y_copy = <<>>
    /\ twin_y_copy = <<>>
    /\ i = 0
    /\ calls = <<>>
    /\ fit_completed = FALSE
    /\ result = [call |-> "__init__", X |-> <<>>, raised |-> "", returned |-> "self",
                 value |-> <<>>]
    /\ transformer = None
    /\ additional_cycles = None
    /\ additional_cycles_passed = None
    /\ outcome = None

\* a fresh instance with the parameters of self
Fresh(s) == New(s.base_regressor, s.max_rounds, s.learning_rate, s.grid_points)

\* fit(X, y, sample_weight), lines 106-137: either raises, or enters _fit
FitCall(d) ==
    /\ pc = "idle"
    /\ LET r == FitSetup(self, d.X, d.y)
           t == FitSetup(Fresh(self), d.X, d.y)
       IN  /\ self' = r.self
           /\ twin' = t.self
           /\ IF r.raised # ""
              THEN /\ result' = [call |-> "fit", X |-> d.X, raised |-> r.raised,
                                 returned |-> "", value |-> <<>>]
                   /\ UNCHANGED <<pc, X, y, sample_weight, y_copy, twin_y_copy,
                                  i, calls>>
              ELSE /\ pc' = "_fit"
                   /\ X' = d.X
                   /\ y' = d.y
                   /\ sample_weight' = CheckSampleWeight(d.sample_weight, d.X)
                   /\ y_copy' = r.y_copy
                   /\ twin_y_copy' = t.y_copy
                   /\ i' = 0
                   /\ calls' = <<>>
                   /\ result' = [call |-> "fit", X |-> d.X, raised |-> "",
                                 returned |-> "", value |-> <<>>]
    /\ UNCHANGED fit_completed
    /\ UNCHANGED time_vars

\* one iteration of the loop of _fit, lines 142-151
FitRound ==
    /\ pc = "_fit"
    /\ i < self.max_rounds
    /\ LET r == BoostingRound(self, X, sample_weight, y_copy, i)
           t == BoostingRound(twin, X, sample_weight, twin_y_copy, i)
       IN  /\ self' = r.self
           /\ y_copy' = r.y_copy
           /\ twin' = t.self
           /\ twin_y_copy' = t.y_copy
           /\ calls' = Append(calls, [i |-> i, feature_number |-> r.feature_number,
                                      regressor |-> r.regressor])
    /\ i' = i + 1
    /\ UNCHANGED <<pc, X, y, sample_weight, fit_completed, result>>
    /\ UNCHANGED time_vars

\* the loop is exhausted: _fit returns and fit returns self, line 139
FitReturn ==
    /\ pc = "_fit"
    /\ i >= self.max_rounds
    /\ pc' = "idle"
    /\ fit_completed' = TRUE
    /\ result' = [result EXCEPT !.returned = "self"]
    /\ UNCHANGED <<self, twin, X, y, sample_weight, y_copy, twin_y_copy, i, calls>>
    /\ UNCHANGED time_vars

\* predict(P), lines 167-182
PredictCall(P) ==
    /\ pc = "idle"
    /\ LET r == Predict(self, P)
       IN  result' = [call |-> "predict", X |-> P, raised |-> r.raised,
                      returned |-> IF r.raised = "" THEN "ndarray" ELSE "",
                      value |-> r.value]
    /\ UNCHANGED <<self, twin, pc, X, y, sample_weight, y_copy, twin_y_copy, i,
                   calls, fit_completed>>
    /\ UNCHANGED time_vars

Next ==
    \/ \E d \in TrainingSets : FitCall(d)
    \/ FitRound
    \/ FitReturn
    \/ \E P \in PredictTables : PredictCall(P)

Spec == Init /\ [][Next]_vars

\* ------------------------------------------------------------------------
\* Properties
\* ------------------------------------------------------------------------
\* the fitted attributes of an instance: which exist, and their values
FittedState(s) ==
    [attrs |-> s.attrs,
     n_features_in_ |-> s.n_features_in_,
     base_regressors_ |-> s.base_regressors_,
     domains_ |-> s.domains_,
     outputs_ |-> s.outputs_,
     mean_ |-> s.mean_]

\* C1: predict on an instance on which no fit call has completed
\* successfully (freshly constructed, or all of its fit calls raised) fails
\* with a not-fitted error.
C1_PredictBeforeFitNotFitted ==
    (result.call = "predict" /\ ~fit_completed)
        => result.raised = "NotFittedError"

\* C2: a fit call that raises a configuration error leaves every fitted
\* attribute of the instance exactly as it was before the call.
C2_FailedFitChangesNothing ==
    [][(result'.call = "fit" /\ result'.raised # "")
          => FittedState(self') = FittedState(self)]_vars

\* the two configuration errors of a fit call with argument P
ListLengthDiffers(s, P) ==
    s.base_regressor.type = "list" /\ Len(s.base_regressor.items) # NumColumns(P)

\* C3: fit on valid X and y raises a ValueError if and only if
\* learning_rate <= 0 or base_regressor is a list whose length differs from
\* the number of columns of X; a single regressor or None never raises the
\* length error; a call that does not raise runs exactly max_rounds rounds
\* and returns the instance.
C3_FitRaisesIffMisconfigured ==
    result.call = "fit" =>
        /\ (result.raised # "") <=>
               (RLe(self.learning_rate, Zero) \/ ListLengthDiffers(self, result.X))
        /\ result.raised \in {"", "ValueError: number of regressors",
                              "ValueError: learning_rate"}
        /\ (result.raised = "ValueError: number of regressors")
               => ListLengthDiffers(self, result.X)
        /\ (result.raised = "" /\ pc = "idle")
               => /\ result.returned = "self"
                  /\ Len(calls) = self.max_rounds
                  /\ i = self.max_rounds
        /\ (result.raised = "" /\ pc = "_fit")
               => /\ Len(calls) = i
                  /\ i <= self.max_rounds

\* a fit call returned after max_rounds > 0 rounds, and the next fit call on
\* the same instance, on a table with another number of columns, raised
C3_Witness ==
    /\ result.call = "fit"
    /\ result.raised = "ValueError: number of regressors"
    /\ fit_completed
    /\ self.max_rounds > 0
    /\ Len(calls) = self.max_rounds

\* the regressor fit assigns to the feature in column j (1-based)
AssignedRegressor(s, j) ==
    IF s.base_regressor.type = "list" THEN s.base_regressor.items[j]
    ELSE IF s.base_regressor.type = "None" THEN DecisionTree
    ELSE s.base_regressor.items[1]

\* the rounds run so far (1-based positions in calls) that fitted feature j
RoundsOf(j) == {k \in 1..Len(calls) : calls[k].feature_number = j}

C4_Schedule ==
    X # <<>> =>
        LET n == NumColumns(X)
        IN  /\ \A k \in 1..Len(calls) :
                  /\ calls[k].i = k - 1
                  /\ calls[k].feature_number = (k - 1) % n
                  /\ calls[k].regressor = AssignedRegressor(self, ((k - 1) % n) + 1)
            /\ \A j \in 0..(n - 1) :
                  /\ RoundsOf(j) = {k \in 1..Len(calls) : (k - 1) % n = j}
                  /\ (result.call = "fit" /\ result.returned = "self"
                          /\ self.max_rounds % n = 0)
                        => Cardinality(RoundsOf(j)) = self.max_rounds \div n

C4_Step ==
    (pc = "_fit" /\ calls' # calls) =>
        /\ i' = i + 1
        /\ Len(calls') = Len(calls) + 1
        /\ calls'[Len(calls')].i = i
        /\ \A j \in 1..Len(self.outputs_) :
              j # (i % NumColumns(X)) + 1 => self'.outputs_[j] = self.outputs_[j]

\* C4: during fit with n features the rounds run in increasing order of i,
\* round i clones and fits the regressor of feature i mod n and changes no
\* other feature's curve; so feature j receives exactly the rounds i with
\* i mod n = j, and max_rounds / n rounds when n divides max_rounds.
C4_RoundRobin == []C4_Schedule /\ [][C4_Step]_vars

\* two features, three rounds: the third round is feature 0 again
C4_Witness ==
    /\ result.call = "fit"
    /\ result.returned = "self"
    /\ NumColumns(X) = 2
    /\ Len(calls) = 3
    /\ calls[3].feature_number = 0
    /\ calls[2].regressor # calls[3].regressor

\* the 1-based index of the grid point nearest to v, the lowest on ties
FirstNearest(grid, v) ==
    CHOOSE k \in 1..Len(grid) :
        /\ \A m \in 1..Len(grid) :
              RLe(RAbs(RSub(grid[k], v)), RAbs(RSub(grid[m], v)))
        /\ \A m \in 1..(k - 1) :
              RLt(RAbs(RSub(grid[k], v)), RAbs(RSub(grid[m], v)))

\* mean_ plus the curve values of the features 1..j at the 1-based grid
\* indices at[1..j]
RECURSIVE CurveSum(_, _, _)
CurveSum(s, at, j) ==
    IF j = 0 THEN s.mean_
    ELSE RAdd(CurveSum(s, at, j - 1), s.outputs_[j][at[j]])

\* the instance holds the grids of the number of features it expects
Coherent(s) ==
    /\ "domains_" \in s.attrs
    /\ s.n_features_in_ = Len(s.domains_)

\* C5: for every row predict returns the global mean plus, over the
\* features j, the curve value at the lowest index nearest to the row's
\* value of j; it returns for every row of the expected number of columns
\* once a fit call has completed (and the instance still holds the grids of
\* the feature count it expects).
C5_PredictIsNearestLookup ==
    result.call = "predict" =>
        /\ result.raised = "" =>
              /\ Len(result.value) = Len(result.X)
              /\ \A r \in 1..Len(result.X) :
                    result.value[r] =
                        CurveSum(self,
                                 [j \in 1..NumColumns(result.X) |->
                                     FirstNearest(self.domains_[j], result.X[r][j])],
                                 NumColumns(result.X))
        /\ (fit_completed /\ Coherent(self)
               /\ NumColumns(result.X) = self.n_features_in_)
              => result.raised = ""

\* a prediction for rows below and above the training range and for a row
\* midway between two grid points with different curve values, one of the
\* grids being that of a constant column
C5_Witness ==
    /\ result.call = "predict"
    /\ result.raised = ""
    /\ NumColumns(result.X) = 2
    /\ \E j \in 1..2 :
          /\ Len(self.domains_[j]) >= 2
          /\ self.domains_[j][1] = self.domains_[j][2]
    /\ \E j \in 1..2, r \in 1..Len(result.X), k \in 1..(self.grid_points - 1) :
          /\ RSub(result.X[r][j], self.domains_[j][k])
                = RSub(self.domains_[j][k + 1], result.X[r][j])
          /\ self.outputs_[j][k] # self.outputs_[j][k + 1]
          /\ FirstNearest(self.domains_[j], result.X[r][j]) = k
    /\ \E j \in 1..2, r \in 1..Len(result.X) :
          RLt(self.domains_[j][self.grid_points], result.X[r][j])
    /\ \E j \in 1..2, r \in 1..Len(result.X) :
          RLt(result.X[r][j], self.domains_[j][1])

\* C6: a row whose value of every feature j equals the grid point k_j gets
\* the global mean plus the curve values at the indices k_j, for every such
\* choice of indices (equal grid points included).
C6_ExactGridHit ==
    (result.call = "predict" /\ result.raised = "") =>
        \A r \in 1..Len(result.X) :
            \A at \in [1..NumColumns(result.X) -> 1..self.grid_points] :
                (\A j \in 1..NumColumns(result.X) :
                    self.domains_[j][at[j]] = result.X[r][j])
                => result.value[r] = CurveSum(self, at, NumColumns(result.X))

\* a row hits the last point of a grid of distinct points and the last
\* point of a grid of equal points, the curves being non-zero
C6_Witness ==
    /\ result.call = "predict"
    /\ result.raised = ""
    /\ NumColumns(result.X) = 2
    /\ self.grid_points >= 2
    /\ \E r \in 1..Len(result.X), j \in 1..2 :
          /\ self.domains_[j][1] # self.domains_[j][self.grid_points]
          /\ self.domains_[j][self.grid_points] = result.X[r][j]
          /\ self.domains_[3 - j][1] = self.domains_[3 - j][self.grid_points]
          /\ self.domains_[3 - j][self.grid_points] = result.X[r][3 - j]
          /\ self.outputs_[j][self.grid_points] # self.outputs_[j][1]
          /\ self.outputs_[3 - j][self.grid_points] # Zero

\* C7: with max_rounds = 0 a fit call with valid parameters returns, every
\* curve is grid_points zeros, and predict returns the arithmetic mean of
\* the training targets for every row.
C7_ZeroRounds ==
    self.max_rounds = 0 =>
        /\ (result.call = "fit" /\ ~RLe(self.learning_rate, Zero)
               /\ ~ListLengthDiffers(self, result.X))
              => /\ result.raised = ""
                 /\ pc = "idle" => result.returned = "self"
        /\ "outputs_" \in self.attrs =>
              /\ Len(self.outputs_) = NumColumns(X)
              /\ \A j \in 1..Len(self.outputs_) :
                    /\ Len(self.outputs_[j]) = self.grid_points
                    /\ \A k \in 1..self.grid_points : self.outputs_[j][k] = Zero
        /\ (result.call = "predict" /\ fit_completed /\ Coherent(self)
               /\ NumColumns(result.X) = self.n_features_in_)
              => result.raised = ""
        /\ (result.call = "predict" /\ result.raised = "") =>
              \A r \in 1..Len(result.X) :
                  RMul(result.value[r], Int2Rat(Len(y))) = RSum(y)

\* zero rounds, and a prediction for many rows from targets of non-zero mean
C7_Witness ==
    /\ self.max_rounds = 0
    /\ result.call = "predict"
    /\ result.raised = ""
    /\ Len(result.X) > 1
    /\ NumColumns(result.X) = 2
    /\ RSum(y) # Zero

\* C8: the fitted state of a fit call that passed the parameter checks is
\* the state the same call gives a freshly constructed instance with the
\* same parameters, whatever calls were made on the instance before: at the
\* start of the loop, after every round and after the return.
C8_FitDependsOnlyOnItsInputs ==
    twin.attrs = FittedAttributes =>
        /\ FittedState(self) = FittedState(twin)
        /\ y_copy = twin_y_copy

\* a fit call on an instance on which an earlier fit call completed has run
\* all its rounds, with a curve that is not zero
C8_Witness ==
    /\ fit_completed
    /\ pc = "_fit"
    /\ twin.attrs = FittedAttributes
    /\ self.max_rounds >= 2
    /\ i = self.max_rounds
    /\ \E k \in 1..self.grid_points : self.outputs_[1][k] # Zero

NonDecreasing(v) == \A k \in 1..(Len(v) - 1) : RLe(v[k], v[k + 1])
NonIncreasing(v) == \A k \in 1..(Len(v) - 1) : RLe(v[k + 1], v[k])

\* C9: the curve of a feature whose base regressor predicts a
\* non-decreasing (non-increasing) function is non-decreasing
\* (non-increasing) along its grid, after every round and after fit.
C9_MonotoneCurves ==
    "outputs_" \in self.attrs =>
        \A j \in 1..Len(self.outputs_) :
            /\ AssignedRegressor(self, j) = IsotonicIncreasing
                  => NonDecreasing(self.outputs_[j])
            /\ AssignedRegressor(self, j) = IsotonicDecreasing
                  => NonIncreasing(self.outputs_[j])

\* after two rounds on an increasing and one on a decreasing feature the
\* first curve rises and the second falls somewhere
C9_Witness ==
    /\ pc = "_fit"
    /\ i = 3
    /\ NumColumns(X) = 2
    /\ AssignedRegressor(self, 1) = IsotonicIncreasing
    /\ AssignedRegressor(self, 2) = IsotonicDecreasing
    /\ \E k \in 1..(self.grid_points - 1) :
          RLt(self.outputs_[1][k], self.outputs_[1][k + 1])
    /\ \E k \in 1..(self.grid_points - 1) :
          RLt(self.outputs_[2][k + 1], self.outputs_[2][k])

\* m is the least (greatest) value of the array v
IsMinimum(m, v) == m \in Values(v) /\ \A u \in Values(v) : RLe(m, u)
IsMaximum(m, v) == m \in Values(v) /\ \A u \in Values(v) : RLe(u, m)

\* one grid and one curve per column of the training table, in column
\* order, each of grid_points entries, the grid starting at the column's
\* minimum
GridsAndCurvesPerFeature ==
    /\ Len(self.domains_) = NumColumns(X)
    /\ Len(self.outputs_) = NumColumns(X)
    /\ \A j \in 1..NumColumns(X) :
          /\ Len(self.domains_[j]) = self.grid_points
          /\ Len(self.outputs_[j]) = self.grid_points
          /\ IsMinimum(self.domains_[j][1], Column(X, j - 1))

\* C10 as stated: from the initialisation of the fitted state on, one grid
\* and one curve per input feature, each of length grid_points, grid j
\* running from the minimum to the maximum of training column j.
C10_GridFromMinToMax ==
    "domains_" \in self.attrs =>
        /\ GridsAndCurvesPerFeature
        /\ \A j \in 1..NumColumns(X) :
              IsMaximum(self.domains_[j][self.grid_points], Column(X, j - 1))

\* C10 amended: the same, the grid ending at the column's maximum when
\* grid_points >= 2; with grid_points = 1 the grid is the single point
\* minimum.
C10_GridFromMinToMaxIfTwoPoints ==
    "domains_" \in self.attrs =>
        /\ GridsAndCurvesPerFeature
        /\ \A j \in 1..NumColumns(X) :
              self.grid_points >= 2 =>
                  IsMaximum(self.domains_[j][self.grid_points], Column(X, j - 1))

\* two features, a round has run, and a grid of at least two points spans
\* a column whose minimum and maximum differ
C10_Witness ==
    /\ pc = "_fit"
    /\ i >= 1
    /\ NumColumns(X) = 2
    /\ self.grid_points >= 2
    /\ self.domains_[1][1] # self.domains_[1][self.grid_points]
    /\ self.outputs_[1] # ZerosLike(self.domains_[1])

\* ========================================================================
\* skbonus/pandas/time.py
\* ========================================================================

\* ------------------------------------------------------------------------
\* pandas timestamps: days since 1970-01-01 and seconds of the day
\* ------------------------------------------------------------------------
\* the day number of the civil date year-month-day
DaysFromCivil(year, month, day) ==
    LET yy == IF month <= 2 THEN year - 1 ELSE year
        era == yy \div 400
        yoe == yy - era * 400
        mp == IF month > 2 THEN month - 3 ELSE month + 9
        doy == ((153 * mp + 2) \div 5) + day - 1
        doe == yoe * 365 + (yoe \div 4) - (yoe \div 100) + doy
    IN  era * 146097 + doe - 719468

\* the civil date of a day number
CivilFromDays(days) ==
    LET z == days + 719468
        era == z \div 146097
        doe == z - era * 146097
        yoe == (doe - (doe \div 1460) + (doe \div 36524) - (doe \div 146096)) \div 365
        doy == doe - (365 * yoe + (yoe \div 4) - (yoe \div 100))
        mp == (5 * doy + 2) \div 153
        day == doy - ((153 * mp + 2) \div 5) + 1
        month == IF mp < 10 THEN mp + 3 ELSE mp - 9
    IN  [year |-> yoe + era * 400 + (IF month <= 2 THEN 1 ELSE 0),
         month |-> month, day |-> day]

\* pd.Timestamp("YYYY-MM-DD hh:mm:ss")
Timestamp(year, month, day, hour, minute, second) ==
    [days |-> DaysFromCivil(year, month, day),
     seconds |-> hour * 3600 + minute * 60 + second]

\* a date string "YYYY-MM-DD" is kept as its three numbers; parsing it gives
\* the timestamp of that day's midnight
DateString(year, month, day) == <<year, month, day>>
ParseDate(date) == Timestamp(date[1], date[2], date[3], 0, 0, 0)

\* DatetimeIndex.second, .minute, .hour
SecondOf(t) == t.seconds % 60
MinuteOf(t) == (t.seconds \div 60) % 60
HourOf(t) == t.seconds \div 3600

\* DatetimeIndex.weekday: Monday is 0 (1970-01-01 was a Thursday)
Weekday(t) == (t.days + 3) % 7

\* DatetimeIndex.day, .month, .year, .dayofyear
DayOf(t) == CivilFromDays(t.days).day
MonthOf(t) == CivilFromDays(t.days).month
YearOf(t) == CivilFromDays(t.days).year
DayOfYear(t) == t.days - DaysFromCivil(YearOf(t), 1, 1) + 1

\* the number of ISO weeks of a year: 53 when 1 January is a Thursday, or a
\* Wednesday in a leap year
IsoWeeksInYear(year) ==
    LET jan1 == (DaysFromCivil(year, 1, 1) + 3) % 7
        leap == DaysFromCivil(year + 1, 1, 1) - DaysFromCivil(year, 1, 1) = 366
    IN  IF jan1 = 3 \/ (leap /\ jan1 = 2) THEN 53 ELSE 52

\* DatetimeIndex.isocalendar().week
IsoWeek(t) ==
    LET w == (DayOfYear(t) - (Weekday(t) + 1) + 10) \div 7
    IN  IF w < 1 THEN IsoWeeksInYear(YearOf(t) - 1)
        ELSE IF w > IsoWeeksInYear(YearOf(t)) THEN 1
        ELSE w

\* timestamp + k * freq, freq a whole number of days
AddSteps(t, k, freq) == [t EXCEPT !.days = @ + k * freq]

\* the order of timestamps
TsLe(a, b) == a.days < b.days \/ (a.days = b.days /\ a.seconds <= b.seconds)

\* ------------------------------------------------------------------------
\* pandas frames: an index of timestamps with its freq attribute (None when
\* the index carries none), the column names, and the rows of cells
\* ------------------------------------------------------------------------
DataFrame(index, freq, columns, values) ==
    [index |-> index, freq |-> freq, columns |-> columns, values |-> values]

\* a missing numeric cell
NaN == <<0, 0>>

\* pd.date_range(start=start, periods=periods, freq=freq)
DateRangePeriods(start, periods, freq) ==
    Tabulate(periods, LAMBDA k : AddSteps(start, k - 1, freq.days))

\* the number of whole days from a to b, rounded down
WholeDays(a, b) ==
    IF b.seconds >= a.seconds THEN b.days - a.days ELSE b.days - a.days - 1

\* pd.date_range(start=start, end=end, freq=freq): start, start + freq, ...
\* up to end
DateRange(start, end, freq) ==
    IF ~TsLe(start, end) THEN <<>>
    ELSE Tabulate((WholeDays(start, end) \div freq.days) + 1,
                  LAMBDA k : AddSteps(start, k - 1, freq.days))

\* index.min(), index.max()
RECURSIVE IndexMin(_)
IndexMin(index) ==
    IF Len(index) = 1 THEN index[1]
    ELSE LET m == IndexMin(Tail(index))
         IN  IF TsLe(index[1], m) THEN index[1] ELSE m

RECURSIVE IndexMax(_)
IndexMax(index) ==
    IF Len(index) = 1 THEN index[1]
    ELSE LET m == IndexMax(Tail(index))
         IN  IF TsLe(m, index[1]) THEN index[1] ELSE m

\* the position of a label in a sequence, 0 when it is not in it
Position(seq, label) ==
    IF \E k \in 1..Len(seq) : seq[k] = label
    THEN CHOOSE k \in 1..Len(seq) : seq[k] = label /\ \A l \in 1..(k - 1) : seq[l] # label
    ELSE 0

\* X[col]: a column as the sequence of its cells
ColumnOf(df, name) ==
    LET c == Position(df.columns, name)
    IN  Tabulate(Len(df.values), LAMBDA r : df.values[r][c])

\* X.assign(name=cells): a column of that name is overwritten where it
\* stands, a new name is appended after the columns of X
Assign(df, name, cells) ==
    LET c == Position(df.columns, name)
    IN  IF c = 0
        THEN [df EXCEPT !.columns = Append(@, name),
                       !.values = Tabulate(Len(@), LAMBDA r :
                                      Append(df.values[r], cells[r]))]
        ELSE [df EXCEPT !.values = Tabulate(Len(@), LAMBDA r :
                                      [df.values[r] EXCEPT ![c] = cells[r]])]

\* Series(cells, index=index).reindex(target): the cell at every label of
\* target, NaN where index has no such label
ReindexSeries(index, cells, target) ==
    Tabulate(Len(target), LAMBDA r :
        LET k == Position(index, target[r])
        IN  IF k = 0 THEN NaN ELSE cells[k])

\* X.reindex(target): the row at every label of target, a row of NaN where
\* the index of X has no such label; the result's index is target
Reindex(df, target, freq) ==
    [df EXCEPT !.index = target,
              !.freq = freq,
              !.values = Tabulate(Len(target), LAMBDA r :
                  LET k == Position(df.index, target[r])
                  IN  IF k = 0 THEN Tabulate(Len(df.columns), LAMBDA c : NaN)
                      ELSE df.values[k])]

\* ------------------------------------------------------------------------
\* SimpleTimeFeatures
\* ------------------------------------------------------------------------
\* SimpleTimeFeatures(**{flag: True for flag in enabled})
SimpleTimeFeatures(enabled) ==
    [class |-> "SimpleTimeFeatures",
     second |-> "second" \in enabled,
     minute |-> "minute" \in enabled,
     hour |-> "hour" \in enabled,
     day_of_week |-> "day_of_week" \in enabled,
     day_of_month |-> "day_of_month" \in enabled,
     day_of_year |-> "day_of_year" \in enabled,
     week_of_month |-> "week_of_month" \in enabled,
     week_of_year |-> "week_of_year" \in enabled,
     month |-> "month" \in enabled,
     year |-> "year" \in enabled,
     attrs |-> {}]

\* the cells index.<field> of a frame
IndexCells(df, Field(_)) == Tabulate(Len(df.index), LAMBDA r : Field(df.index[r]))

\* np.ceil(day / 7).astype(int)
CeilDiv7(day) == -((-day) \div 7)

AddSecond(this, df) ==
    IF this.second THEN Assign(df, "second", IndexCells(df, SecondOf)) ELSE df

AddMinute(this, df) ==
    IF this.minute THEN Assign(df, "minute", IndexCells(df, MinuteOf)) ELSE df

AddHour(this, df) ==
    IF this.hour THEN Assign(df, "hour", IndexCells(df, HourOf)) ELSE df

AddDayOfWeek_Sunday1(this, df) ==
    IF this.day_of_week
    THEN Assign(df, "day_of_week", IndexCells(df, LAMBDA t : ((Weekday(t) + 1) % 7) + 1))
    ELSE df

AddDayOfWeek(this, df) ==
    IF this.day_of_week
    THEN Assign(df, "day_of_week", IndexCells(df, LAMBDA t : Weekday(t) + 1))
    ELSE df

AddDayOfMonth(this, df) ==
    IF this.day_of_month THEN Assign(df, "day_of_month", IndexCells(df, DayOf)) ELSE df

AddDayOfYear(this, df) ==
    IF this.day_of_year THEN Assign(df, "day_of_year", IndexCells(df, DayOfYear)) ELSE df

AddWeekOfMonth(this, df) ==
    IF this.week_of_month
    THEN Assign(df, "week_of_month", IndexCells(df, LAMBDA t : CeilDiv7(DayOf(t))))
    ELSE df

AddWeekOfYear(this, df) ==
    IF this.week_of_year THEN Assign(df, "week_of_year", IndexCells(df, IsoWeek)) ELSE df

AddMonth(this, df) ==
    IF this.month THEN Assign(df, "month", IndexCells(df, MonthOf)) ELSE df

AddYear(this, df) ==
    IF this.year THEN Assign(df, "year", IndexCells(df, YearOf)) ELSE df

\* fit of SimpleTimeFeatures, CyclicalEncoder and DateIndicator: nothing but
\* self.fitted_ = True
SetFitted(this) == [this EXCEPT !.attrs = @ \cup {"fitted_"}]

\* SimpleTimeFeatures.transform: the error raised ("" when none) and the
\* returned frame
SimpleTimeFeaturesTransform(this, df) ==
    IF ~IsFitted(this) THEN [raised |-> "NotFittedError", value |-> None]
    ELSE [raised |-> "",
          value |->
            AddYear(this, AddMonth(this, AddWeekOfYear(this, AddWeekOfMonth(this,
            AddDayOfYear(this, AddDayOfMonth(this, AddDayOfWeek(this,
            AddHour(this, AddMinute(this, AddSecond(this, df))))))))))]

\* ------------------------------------------------------------------------
\* DateIndicator
\* ------------------------------------------------------------------------
DateIndicator(name, dates) ==
    [class |-> "DateIndicator", name |-> name, dates |-> dates, attrs |-> {}]

\* index.isin(dates).astype(int): the date strings are parsed
IsIn_DayOnly(t, dates) ==
    IF \E k \in 1..Len(dates) : ParseDate(dates[k]).days = t.days THEN 1 ELSE 0

IsIn(t, dates) ==
    IF \E k \in 1..Len(dates) : ParseDate(dates[k]) = t THEN 1 ELSE 0

\* DateIndicator.transform
DateIndicatorTransform(this, df) ==
    IF ~IsFitted(this) THEN [raised |-> "NotFittedError", value |-> None]
    ELSE [raised |-> "",
          value |-> Assign(df, this.name, IndexCells(df, LAMBDA t : IsIn(t, this.dates)))]

\* ------------------------------------------------------------------------
\* CyclicalEncoder
\* ------------------------------------------------------------------------
\* a dictionary {cycle_name: {"min": min_value, "max": max_value}} is a
\* function on its keys
DEFAULT_CYCLES ==
    [second |-> [min |-> 0, max |-> 59],
     minute |-> [min |-> 0, max |-> 59],
     hour |-> [min |-> 0, max |-> 23],
     day_of_week |-> [min |-> 1, max |-> 7],
     day_of_month |-> [min |-> 1, max |-> 31],
     day_of_year |-> [min |-> 1, max |-> 366],
     week_of_month |-> [min |-> 1, max |-> 5],
     week_of_year |-> [min |-> 1, max |-> 53],
     month |-> [min |-> 1, max |-> 12]]

\* d.update(other): the entries of other are written over those of d
DictUpdate(d, other) ==
    [k \in DOMAIN d \cup DOMAIN other |-> IF k \in DOMAIN other THEN other[k] ELSE d[k]]

\* CyclicalEncoder(additional_cycles), lines 254-269: the new instance and
\* the caller's dictionary object after the call; the instance's attribute
\* is that same object when one was passed
CyclicalEncoder(passed) ==
    IF passed # None
    THEN [instance |-> [class |-> "CyclicalEncoder",
                        additional_cycles |-> DictUpdate(passed, DEFAULT_CYCLES),
                        attrs |-> {}],
          additional_cycles |-> DictUpdate(passed, DEFAULT_CYCLES)]
    ELSE [instance |-> [class |-> "CyclicalEncoder",
                        additional_cycles |-> DEFAULT_CYCLES,
                        attrs |-> {}],
          additional_cycles |-> None]

\* the part of a rational after the largest whole number below it
RFrac(q) == Rat(q[1] % q[2], q[2])

\* np.cos(turn * 2 * np.pi): the cosine is kept as the angle it is the
\* cosine of, in turns, brought into [0, 1/2] where the cosine is one-to-one
NpCos(turn) ==
    LET f == RFrac(turn)
    IN  [cos |-> IF RLe(f, Rat(1, 2)) THEN f ELSE RSub(Int2Rat(1), f)]

\* np.sin(turn * 2 * np.pi): likewise, the angle in [-1/4, 1/4]
NpSin(turn) ==
    LET f == RFrac(turn)
    IN  [sin |-> IF RLe(f, Rat(1, 4)) THEN f
                 ELSE IF RLe(f, Rat(3, 4)) THEN RSub(Rat(1, 2), f)
                 ELSE RSub(f, Int2Rat(1))]

\* min_max(col) / (2 * np.pi), lines 318-328
MinMax(this, df, col) ==
    LET cycle == this.additional_cycles[col]
        cells == ColumnOf(df, col)
    IN  Tabulate(Len(cells), LAMBDA r :
            RDiv(Int2Rat(cells[r] - cycle.min), Int2Rat(cycle.max + 1 - cycle.min)))

\* X.columns.intersection(self.additional_cycles.keys())
CycleColumns(this, df) ==
    SelectSeq(df.columns, LAMBDA col : col \in DOMAIN this.additional_cycles)

\* X.assign(**{names[k]: cells[k]}) for k from 1
RECURSIVE AssignAll(_, _, _)
AssignAll(df, names, cells) ==
    IF names = <<>> THEN df
    ELSE AssignAll(Assign(df, Head(names), Head(cells)), Tail(names), Tail(cells))

\* CyclicalEncoder.transform, lines 316-339
CyclicalEncoderTransform(this, df) ==
    IF ~IsFitted(this) THEN [raised |-> "NotFittedError", value |-> None]
    ELSE LET cols == CycleColumns(this, df)
             n == Len(cols)
             turns == Tabulate(n, LAMBDA k : MinMax(this, df, cols[k]))
             names == Tabulate(n, LAMBDA k : cols[k] \o "_cos")
                      \o Tabulate(n, LAMBDA k : cols[k] \o "_sin")
             cells == Tabulate(n, LAMBDA k :
                          Tabulate(Len(turns[k]), LAMBDA r : NpCos(turns[k][r])))
                      \o Tabulate(n, LAMBDA k :
                          Tabulate(Len(turns[k]), LAMBDA r : NpSin(turns[k][r])))
         IN  [raised |-> "", value |-> AssignAll(df, names, cells)]

\* ------------------------------------------------------------------------
\* BaseContinuousTransformer
\* ------------------------------------------------------------------------
\* a frequency string such as "d" or "2D" is kept as its multiple and its
\* unit letter
FrequencyString(n, unit) == <<n, unit>>

\* pd.tseries.frequencies.to_offset(frequency): the unit is read without
\* regard to case; an offset is a whole number of days
ToOffset(frequency) ==
    CASE frequency[2] \in {"d", "D"} -> [days |-> frequency[1]]

\* _set_frequency, lines 452-459: the instance as the call leaves it and
\* the error raised ("" when none)
SetFrequency_AlwaysInfer(this, df) ==
    [self |-> [this EXCEPT !.freq_ = df.freq, !.attrs = @ \cup {"freq_"}],
     raised |-> IF df.freq = None THEN "ValueError: No frequency provided" ELSE ""]

SetFrequency(this, df) ==
    IF this.frequency = None
    THEN [self |-> [this EXCEPT !.freq_ = df.freq, !.attrs = @ \cup {"freq_"}],
          raised |-> IF df.freq = None THEN "ValueError: No frequency provided" ELSE ""]
    ELSE [self |-> [this EXCEPT !.freq_ = ToOffset(this.frequency),
                                !.attrs = @ \cup {"freq_"}],
          raised |-> ""]

\* _make_continuous_time_index, lines 480-485, with start and end resolved
MakeContinuousTimeIndex(this, start, end) == DateRange(start, end, this.freq_)

\* ------------------------------------------------------------------------
\* PowerTrend
\* ------------------------------------------------------------------------
PowerTrend(power, frequency, origin_date) ==
    [class |-> "PowerTrend", power |-> power, frequency |-> frequency,
     origin_date |-> origin_date, freq_ |-> None, origin_ |-> None, attrs |-> {}]

\* PowerTrend.fit, lines 558-565
PowerTrendFit_OriginFromMax(this, df) ==
    LET f == SetFrequency(this, df)
    IN  IF f.raised # "" THEN f
        ELSE [self |-> [f.self EXCEPT
                          !.origin_ = IF this.origin_date = None
                                      THEN IndexMax(df.index)
                                      ELSE ParseDate(this.origin_date),
                          !.attrs = @ \cup {"origin_"}],
              raised |-> ""]

PowerTrendFit(this, df) ==
    LET f == SetFrequency(this, df)
    IN  IF f.raised # "" THEN f
        ELSE [self |-> [f.self EXCEPT
                          !.origin_ = IF this.origin_date = None
                                      THEN IndexMin(df.index)
                                      ELSE ParseDate(this.origin_date),
                          !.attrs = @ \cup {"origin_"}],
              raised |-> ""]

\* base ** exponent for a whole exponent >= 0, with 0 ** 0 = 1
RECURSIVE RPow(_, _)
RPow(base, exponent) ==
    IF exponent = 0 THEN Int2Rat(1) ELSE RMul(base, RPow(base, exponent - 1))

\* cell ** power on a float column: NaN ** 0 is 1, NaN ** power is NaN
CellPow(cell, power) ==
    IF cell = NaN /\ power # 0 THEN NaN ELSE RPow(cell, power)

\* PowerTrend.transform, lines 582-587
PowerTrendTransform(this, df) ==
    IF ~IsFitted(this) THEN [raised |-> "NotFittedError", value |-> None]
    ELSE IF "origin_" \notin this.attrs
    THEN [raised |-> "AttributeError", value |-> None]
    ELSE IF this.freq_ = None
    THEN [raised |-> "ValueError: date_range", value |-> None]
    ELSE LET extended_index ==
                 MakeContinuousTimeIndex(this, this.origin_, IndexMax(df.index))
             dummy_dates == Tabulate(Len(extended_index), LAMBDA k : Int2Rat(k - 1))
             trend == ReindexSeries(extended_index, dummy_dates, df.index)
         IN  [raised |-> "",
              value |-> Assign(df, "trend",
                            Tabulate(Len(trend), LAMBDA r :
                                CellPow(trend[r], this.power)))]

\* ------------------------------------------------------------------------
\* GeneralGaussianSmoother
\* ------------------------------------------------------------------------
GeneralGaussianSmoother(frequency, window, p, sig, tails) ==
    [class |-> "GeneralGaussianSmoother", frequency |-> frequency,
     window |-> window, p |-> p, sig |-> sig, tails |-> tails,
     freq_ |-> None, sliding_window_ |-> None, attrs |-> {}]

\* np.arange(-window // 2 + 1, window // 2 + 1), line 683
KernelArange(window) ==
    Tabulate(((window \div 2) + 1) - (((-window) \div 2) + 1),
             LAMBDA k : ((-window) \div 2) + 1 + (k - 1))

\* an entry of the kernel: np.exp(exponent), kept as its exponent, or 0
ExpOf(exponent) == [zero |-> FALSE, exp |-> exponent]
ZeroEntry == [zero |-> TRUE, exp |-> Zero]

\* np.exp(-0.5 * np.abs(arange / sig) ** (2 * p)), lines 681-685; 2 * p is
\* a whole number
GaussianCurve(window, p, sig) ==
    LET arange == KernelArange(window)
    IN  Tabulate(Len(arange), LAMBDA k :
            ExpOf(RMul(Rat(-1, 2),
                       RPow(RAbs(RDiv(Int2Rat(arange[k]), sig)),
                            RMul(Int2Rat(2), p)[1]))))

\* sliding_window_[window // 2 + 1 :] = 0, line 687
MaskLeft(curve, window) ==
    Tabulate(Len(curve), LAMBDA k :
        IF k - 1 >= (window \div 2) + 1 THEN ZeroEntry ELSE curve[k])

\* sliding_window_[: window // 2] = 0, line 689
MaskRight(curve, window) ==
    Tabulate(Len(curve), LAMBDA k :
        IF k - 1 < window \div 2 THEN ZeroEntry ELSE curve[k])

\* _set_sliding_window, lines 681-693: the kernel is the entries and what
\* they are divided by (the entries summed; None: not divided yet)
SetSlidingWindow(this) ==
    LET curve == GaussianCurve(this.window, this.p, this.sig)
        masked == IF this.tails = "left" THEN MaskLeft(curve, this.window)
                  ELSE IF this.tails = "right" THEN MaskRight(curve, this.window)
                  ELSE curve
    IN  [self |-> [this EXCEPT
                     !.sliding_window_ = [entries |-> masked, divided_by |-> None],
                     !.attrs = @ \cup {"sliding_window_"}],
         raised |-> IF this.tails \notin {"left", "right", "both"}
                    THEN "ValueError: tails" ELSE ""]

\* GeneralGaussianSmoother.fit, lines 720-726
GeneralGaussianSmootherFit(this, df) ==
    LET f == SetFrequency(this, df)
        w == SetSlidingWindow(f.self)
    IN  IF f.raised # "" THEN f
        ELSE IF w.raised # "" THEN w
        ELSE [self |-> [w.self EXCEPT !.sliding_window_.divided_by =
                                          w.self.sliding_window_.entries],
              raised |-> ""]

\* the distinct exponents of the non-zero entries of a kernel
Exponents(entries) ==
    {entries[j].exp : j \in {k \in 1..Len(entries) : ~entries[k].zero}}

\* a cell of the smoothed frame is a sum of kernel entries times rational
\* cells of the input: it is kept as the coefficient of every distinct
\* non-zero entry (exponentials of distinct rationals are linearly
\* independent over the rationals, so equal cells have equal coefficients)
SmoothedNaN == [nan |-> TRUE, terms |-> <<>>]

\* .fillna(0)
FillNa0(cell) == IF cell = NaN THEN Zero ELSE cell

\* the index (from 0) of the row of the input that kernel entry j (from 0)
\* multiplies in output row m (from 0) of
\* scipy.signal.convolve2d(A, kernel, mode="same")
ConvolvedRow_CenterHigh(m, j, window) == m + (window \div 2) - j

ConvolvedRow(m, j, window) == m + ((window - 1) \div 2) - j

\* convolve2d(A, kernel, mode="same") for the column kernel: one cell
Convolve2dCell(A, entries, m, c) ==
    [nan |-> FALSE,
     terms |-> [e \in Exponents(entries) |->
                   RSum(Tabulate(Len(entries), LAMBDA j :
                       LET row == ConvolvedRow(m - 1, j - 1, Len(entries)) + 1
                       IN  IF ~entries[j].zero /\ entries[j].exp = e
                              /\ row \in 1..Len(A)
                           THEN FillNa0(A[row][c])
                           ELSE Zero))]]

\* GeneralGaussianSmoother.transform, lines 742-752
GeneralGaussianSmootherTransform(this, df) ==
    IF ~IsFitted(this) THEN [raised |-> "NotFittedError", value |-> None]
    ELSE IF this.freq_ = None
    THEN [raised |-> "ValueError: date_range", value |-> None]
    ELSE IF "sliding_window_" \notin this.attrs
    THEN [raised |-> "AttributeError", value |-> None]
    ELSE IF this.sliding_window_.divided_by = None
    THEN [raised |-> "ValueError: convolve2d", value |-> None]
    ELSE LET extended_index ==
                 MakeContinuousTimeIndex(this, IndexMin(df.index), IndexMax(df.index))
             A == Reindex(df, extended_index, this.freq_).values
             entries == this.sliding_window_.entries
             convolution ==
                 Tabulate(Len(A), LAMBDA m :
                     Tabulate(Len(df.columns), LAMBDA c :
                         Convolve2dCell(A, entries, m, c)))
         IN  [raised |-> "",
              value |->
                [index |-> df.index,
                 freq |-> df.freq,
                 columns |-> df.columns,
                 values |-> Tabulate(Len(df.index), LAMBDA r :
                     LET k == Position(extended_index, df.index[r])
                     IN  IF k = 0
                         THEN Tabulate(Len(df.columns), LAMBDA c : SmoothedNaN)
                         ELSE convolution[k])]]

\* ------------------------------------------------------------------------
\* Bounds and the inputs of the calls on the transformers
\* ------------------------------------------------------------------------
MaxWindow == 4
MaxPower == 2

Day == [days |-> 1]
TwoDays == [days |-> 2]

\* the frame of the test module's get_non_continuous_data; a frame with a
\* column that is already called month; a week of days
CalendarFrames ==
    {DataFrame(<<Timestamp(1988, 8, 8, 11, 12, 12), Timestamp(2000, 1, 1, 7, 6, 5),
                 Timestamp(1950, 12, 31, 0, 0, 0)>>, None,
               <<"A", "B", "C">>, <<<<"a", 1, 0>>, <<"b", 2, 1>>, <<"c", 2, 0>>>>),
     DataFrame(<<Timestamp(2021, 1, 3, 23, 59, 59), Timestamp(2020, 2, 29, 0, 0, 0),
                 Timestamp(2018, 11, 15, 0, 0, 1), Timestamp(2018, 11, 22, 6, 0, 0)>>,
               None, <<"month", "A">>,
               <<<<"jan", 1>>, <<"feb", 2>>, <<"nov", 3>>, <<"nov", 4>>>>),
     DataFrame(DateRangePeriods(Timestamp(2019, 12, 29, 0, 0, 0), 7, Day), Day,
               <<"A">>, <<<<0>>, <<1>>, <<2>>, <<3>>, <<4>>, <<5>>, <<6>>>>)}

TimeFeatureNames ==
    <<"second", "minute", "hour", "day_of_week", "day_of_month", "day_of_year",
      "week_of_month", "week_of_year", "month", "year">>

EnabledChoices ==
    {{}, {TimeFeatureNames[k] : k \in 1..Len(TimeFeatureNames)},
     {"day_of_month", "month", "year"}, {"year", "second"},
     {"week_of_month", "day_of_week", "hour"}}
    \cup {{TimeFeatureNames[k]} : k \in 1..Len(TimeFeatureNames)}

\* dictionaries a caller passes as additional_cycles (None: none)
CycleChoices ==
    {None,
     [quarter |-> [min |-> 1, max |-> 4]],
     [day_of_week |-> [min |-> 0, max |-> 6]],
     [quarter |-> [min |-> 1, max |-> 4], hour |-> [min |-> 1, max |-> 24]]}

CycleFrames ==
    {DataFrame(DateRangePeriods(Timestamp(2019, 12, 29, 0, 0, 0), 5, Day), Day,
               <<"hour">>, <<<<22>>, <<23>>, <<0>>, <<1>>, <<2>>>>),
     DataFrame(DateRangePeriods(Timestamp(2019, 12, 29, 0, 0, 0), 3, Day), Day,
               <<"A", "day_of_week", "quarter">>,
               <<<<"a", 0, 1>>, <<"b", 1, 4>>, <<"c", 6, 2>>>>),
     DataFrame(DateRangePeriods(Timestamp(2019, 12, 29, 0, 0, 0), 2, Day), Day,
               <<"A">>, <<<<"a">>, <<"b">>>>)}

IndicatorNames == {"around_new_year_2020", "A"}

IndicatorDates ==
    {<<DateString(2019, 12, 31), DateString(2020, 1, 1), DateString(2020, 1, 2)>>,
     <<DateString(2018, 11, 23)>>,
     <<>>}

IndicatorFrames ==
    {DataFrame(DateRangePeriods(Timestamp(2019, 12, 29, 0, 0, 0), 7, Day), Day,
               <<"A">>, <<<<0>>, <<1>>, <<2>>, <<3>>, <<4>>, <<5>>, <<6>>>>),
     DataFrame(<<Timestamp(2020, 1, 1, 0, 0, 0), Timestamp(2019, 12, 31, 12, 0, 0),
                 Timestamp(2018, 11, 23, 0, 0, 0), Timestamp(2019, 12, 31, 0, 0, 0)>>,
               None, <<"B", "A">>,
               <<<<"w", 0>>, <<"x", 1>>, <<"y", 2>>, <<"z", 3>>>>)}

FrequencyChoices == {None, FrequencyString(1, "d"), FrequencyString(2, "D")}

OriginChoices == {None, DateString(1988, 8, 6), DateString(1988, 8, 9)}

\* a daily range; rows out of order, before the origin and off the daily
\* grid, with a column that is already called trend; a two-day range
TrendFrames ==
    {DataFrame(DateRangePeriods(Timestamp(1988, 8, 8, 0, 0, 0), 4, Day), Day,
               <<"A">>, <<<<"a">>, <<"b">>, <<"c">>, <<"d">>>>),
     DataFrame(<<Timestamp(1988, 8, 11, 0, 0, 0), Timestamp(1988, 8, 5, 0, 0, 0),
                 Timestamp(1988, 8, 8, 12, 0, 0), Timestamp(1988, 8, 10, 0, 0, 0)>>,
               None, <<"trend", "A">>,
               <<<<"t", "a">>, <<"u", "b">>, <<"v", "c">>, <<"w", "d">>>>),
     DataFrame(DateRangePeriods(Timestamp(1988, 8, 7, 0, 0, 0), 3, TwoDays), TwoDays,
               <<"A">>, <<<<"a">>, <<"b">>, <<"c">>>>)}

TailsChoices == {"left", "right", "both", "up"}

\* the pairs p, sig
ShapeChoices == {<<Int2Rat(1), Int2Rat(1)>>, <<Rat(1, 2), Int2Rat(2)>>}

\* the frame of the class docstring (one event in a week); rows out of
\* order with gaps and two columns; two events next to the ends
SmootherFrames ==
    {DataFrame(DateRangePeriods(Timestamp(2019, 12, 29, 0, 0, 0), 7, Day), Day,
               <<"A">>, Table(<<<<0>>, <<0>>, <<0>>, <<1>>, <<0>>, <<0>>, <<0>>>>)),
     DataFrame(<<Timestamp(2020, 1, 4, 0, 0, 0), Timestamp(2019, 12, 29, 0, 0, 0),
                 Timestamp(2020, 1, 2, 0, 0, 0)>>, None,
               <<"A", "B">>, Table(<<<<0, 1>>, <<2, 0>>, <<1, 0>>>>)),
     DataFrame(DateRangePeriods(Timestamp(2019, 12, 29, 0, 0, 0), 4, TwoDays), TwoDays,
               <<"A">>, Table(<<<<1>>, <<0>>, <<0>>, <<3>>>>))}

\* ------------------------------------------------------------------------
\* The transformers as a state machine: one instance is constructed, then
\* fit and transform are called on it in any order
\* ------------------------------------------------------------------------
Constructed(instance, caller_dict, passed) ==
    /\ transformer = instance
    /\ additional_cycles = caller_dict
    /\ additional_cycles_passed = passed
    /\ outcome = [call |-> "__init__", X |-> None, raised |-> "", value |-> None]

TimeInit ==
    /\ self = None /\ twin = None /\ pc = "idle"
    /\ X = <<>> /\ y = <<>> /\ sample_weight = <<>>
    /\ y_copy = <<>> /\ twin_y_copy = <<>>
    /\ i = 0 /\ calls = <<>> /\ fit_completed = FALSE /\ result = None
    /\ \/ \E enabled \in EnabledChoices :
             Constructed(SimpleTimeFeatures(enabled), None, None)
       \/ \E passed \in CycleChoices :
             Constructed(CyclicalEncoder(passed).instance,
                         CyclicalEncoder(passed).additional_cycles, passed)
       \/ \E name \in IndicatorNames, dates \in IndicatorDates :
             Constructed(DateIndicator(name, dates), None, None)
       \/ \E power \in 0..MaxPower, frequency \in FrequencyChoices,
             origin_date \in OriginChoices :
             Constructed(PowerTrend(power, frequency, origin_date), None, None)
       \/ \E frequency \in FrequencyChoices, window \in 1..MaxWindow,
             shape \in ShapeChoices, tails \in TailsChoices :
             Constructed(GeneralGaussianSmoother(frequency, window, shape[1],
                                                 shape[2], tails), None, None)

\* a call that leaves the instance as `instance`
Called(call, df, instance, raised, value) ==
    /\ transformer' = instance
    /\ outcome' = [call |-> call, X |-> df, raised |-> raised, value |-> value]
    /\ UNCHANGED <<additional_cycles, additional_cycles_passed>>
    /\ UNCHANGED regressor_vars

FitSimpleTimeFeatures(df) ==
    /\ transformer.class = "SimpleTimeFeatures"
    /\ Called("fit", df, SetFitted(transformer), "", None)

TransformSimpleTimeFeatures(df) ==
    /\ transformer.class = "SimpleTimeFeatures"
    /\ LET r == SimpleTimeFeaturesTransform(transformer, df)
       IN  Called("transform", df, transformer, r.raised, r.value)

FitCyclicalEncoder(df) ==
    /\ transformer.class = "CyclicalEncoder"
    /\ Called("fit", df, SetFitted(transformer), "", None)

TransformCyclicalEncoder(df) ==
    /\ transformer.class = "CyclicalEncoder"
    /\ LET r == CyclicalEncoderTransform(transformer, df)
       IN  Called("transform", df, transformer, r.raised, r.value)

FitDateIndicator(df) ==
    /\ transformer.class = "DateIndicator"
    /\ Called("fit", df, SetFitted(transformer), "", None)

TransformDateIndicator(df) ==
    /\ transformer.class = "DateIndicator"
    /\ LET r == DateIndicatorTransform(transformer, df)
       IN  Called("transform", df, transformer, r.raised, r.value)

FitPowerTrend(df) ==
    /\ transformer.class = "PowerTrend"
    /\ LET r == PowerTrendFit(transformer, df)
       IN  Called("fit", df, r.self, r.raised, None)

TransformPowerTrend(df) ==
    /\ transformer.class = "PowerTrend"
    /\ LET r == PowerTrendTransform(transformer, df)
       IN  Called("transform", df, transformer, r.raised, r.value)

FitGeneralGaussianSmoother(df) ==
    /\ transformer.class = "GeneralGaussianSmoother"
    /\ LET r == GeneralGaussianSmootherFit(transformer, df)
       IN  Called("fit", df, r.self, r.raised, None)

TransformGeneralGaussianSmoother(df) ==
    /\ transformer.class = "GeneralGaussianSmoother"
    /\ LET r == GeneralGaussianSmootherTransform(transformer, df)
       IN  Called("transform", df, transformer, r.raised, r.value)

TimeNext ==
    \/ \E df \in CalendarFrames : FitSimpleTimeFeatures(df)
    \/ \E df \in CalendarFrames : TransformSimpleTimeFeatures(df)
    \/ \E df \in CycleFrames : FitCyclicalEncoder(df)
    \/ \E df \in CycleFrames : TransformCyclicalEncoder(df)
    \/ \E df \in IndicatorFrames : FitDateIndicator(df)
    \/ \E df \in IndicatorFrames : TransformDateIndicator(df)
    \/ \E df \in TrendFrames : FitPowerTrend(df)
    \/ \E df \in TrendFrames : TransformPowerTrend(df)
    \/ \E df \in SmootherFrames : FitGeneralGaussianSmoother(df)
    \/ \E df \in SmootherFrames : TransformGeneralGaussianSmoother(df)

TimeSpec == TimeInit /\ [][TimeNext]_vars

\* ========================================================================
\* Properties of the transformers
\* ========================================================================
IsValueError(raised) ==
    raised \in {"ValueError: No frequency provided", "ValueError: tails",
                "ValueError: date_range", "ValueError: convolve2d"}

\* the state after a fit call on a PowerTrend or a GeneralGaussianSmoother
AfterContinuousFit ==
    /\ outcome.call = "fit"
    /\ transformer.class \in {"PowerTrend", "GeneralGaussianSmoother"}

TailsValid ==
    transformer.class = "GeneralGaussianSmoother"
        => transformer.tails \in {"left", "right", "both"}

\* C11 as stated: fit of PowerTrend and GeneralGaussianSmoother raises
\* ValueError exactly when no frequency was given and the index of X carries
\* none; a given frequency is used whatever the index carries, and with none
\* given the frequency of the index is stored and fit succeeds.
C11_FitRaisesIffNoFrequency ==
    AfterContinuousFit =>
        /\ IsValueError(outcome.raised)
               <=> (transformer.frequency = None /\ outcome.X.freq = None)
        /\ transformer.frequency # None =>
               /\ outcome.raised = ""
               /\ transformer.freq_ = ToOffset(transformer.frequency)
        /\ (transformer.frequency = None /\ outcome.X.freq # None) =>
               /\ outcome.raised = ""
               /\ transformer.freq_ = outcome.X.freq

\* C11 amended: the missing-frequency ValueError is raised exactly when no
\* frequency was given and the index of X carries none; otherwise the given
\* frequency, or without one the frequency of the index, is stored as
\* freq_, and fit succeeds unless the instance is a GeneralGaussianSmoother
\* whose tails is none of "left", "right", "both": its fit then raises
\* ValueError all the same.
C11_FitRaisesIffNoFrequencyOrBadTails ==
    AfterContinuousFit =>
        /\ outcome.raised = "ValueError: No frequency provided"
               <=> (transformer.frequency = None /\ outcome.X.freq = None)
        /\ IsValueError(outcome.raised)
               <=> (\/ (transformer.frequency = None /\ outcome.X.freq = None)
                    \/ ~TailsValid)
        /\ outcome.raised # "" => IsValueError(outcome.raised)
        /\ transformer.frequency # None =>
               /\ "freq_" \in transformer.attrs
               /\ transformer.freq_ = ToOffset(transformer.frequency)
        /\ (transformer.frequency = None /\ outcome.X.freq # None) =>
               /\ "freq_" \in transformer.attrs
               /\ transformer.freq_ = outcome.X.freq

\* a frequency was given, the index carries another one, and fit succeeded
\* with the given one
C11_Witness ==
    /\ AfterContinuousFit
    /\ outcome.raised = ""
    /\ transformer.frequency # None
    /\ outcome.X.freq # None
    /\ outcome.X.freq # ToOffset(transformer.frequency)
    /\ transformer.freq_ = ToOffset(transformer.frequency)

\* the columns of a frame other than the one called name, in their order
OtherColumns(df, name) == SelectSeq(df.columns, LAMBDA col : col # name)

\* every column of df other than name stands in out with the same cells,
\* the columns keep their order, and out has the index of df
KeepsOtherColumns(df, out, name) ==
    /\ out.index = df.index
    /\ OtherColumns(out, name) = OtherColumns(df, name)
    /\ \A col \in {df.columns[k] : k \in 1..Len(df.columns)} \ {name} :
           ColumnOf(out, col) = ColumnOf(df, col)

\* the rows of the frame of a transform call dated k >= 0 steps of freq_
\* after origin_, as pairs <<row, k>>
RowsAfterOrigin ==
    {rk \in (1..Len(outcome.X.index)) \X (0..(IndexMax(outcome.X.index).days
                                              - transformer.origin_.days)) :
        outcome.X.index[rk[1]] =
            AddSteps(transformer.origin_, rk[2], transformer.freq_.days)}

AfterTrendFit ==
    outcome.call = "fit" /\ transformer.class = "PowerTrend" /\ outcome.raised = ""

AfterTrendTransform ==
    outcome.call = "transform" /\ transformer.class = "PowerTrend"
        /\ outcome.raised = ""

\* the fitted origin is origin_date when given, else the smallest index
\* value of the frame passed to fit
OriginFromFit ==
    AfterTrendFit =>
        transformer.origin_ = IF transformer.origin_date # None
                              THEN ParseDate(transformer.origin_date)
                              ELSE IndexMin(outcome.X.index)

\* transform leaves the instance, so its origin, as the last fit left it
TransformKeepsTransformer ==
    (outcome'.call = "transform") => (transformer' = transformer)

TrendIsPowerOfSteps ==
    AfterTrendTransform =>
        /\ "trend" \in {outcome.value.columns[k] : k \in 1..Len(outcome.value.columns)}
        /\ KeepsOtherColumns(outcome.X, outcome.value, "trend")
        /\ \A rk \in RowsAfterOrigin :
               ColumnOf(outcome.value, "trend")[rk[1]]
                   = RPow(Int2Rat(rk[2]), transformer.power)

AfterIndicatorTransform ==
    outcome.call = "transform" /\ transformer.class = "DateIndicator"
        /\ outcome.raised = ""

\* 1 when the index value of row r of the frame of the call is one of the
\* dates, else 0
OnListedDate(r) ==
    IF \E k \in 1..Len(transformer.dates) :
           outcome.X.index[r] = ParseDate(transformer.dates[k])
    THEN 1 ELSE 0

\* fit of a DateIndicator sets fitted_ and nothing else, whatever X and dates
IndicatorFitReadsNothing ==
    (outcome'.call = "fit" /\ transformer.class = "DateIndicator") =>
        /\ outcome'.raised = ""
        /\ transformer' = [transformer EXCEPT !.attrs = @ \cup {"fitted_"}]

AfterFeaturesTransform ==
    outcome.call = "transform" /\ transformer.class = "SimpleTimeFeatures"
        /\ outcome.raised = ""

\* the enabled flags in the fixed order
EnabledFeatures == SelectSeq(TimeFeatureNames, LAMBDA name : transformer[name])

\* 1988-08-08 is the Monday of the test module (day_of_week 1)
KnownMonday == Timestamp(1988, 8, 8, 0, 0, 0)

\* on every row, day_of_week counts the days from a Monday, from 1 to 7, and
\* week_of_month is the w in 1..5 with 7 (w - 1) < day of month <= 7 w
DayOfWeekAndWeekOfMonth ==
    AfterFeaturesTransform =>
        \A r \in 1..Len(outcome.X.index) :
            /\ transformer.day_of_week =>
                   /\ ColumnOf(outcome.value, "day_of_week")[r] \in 1..7
                   /\ ColumnOf(outcome.value, "day_of_week")[r]
                          = ((outcome.X.index[r].days - KnownMonday.days) % 7) + 1
            /\ transformer.week_of_month =>
                   /\ ColumnOf(outcome.value, "week_of_month")[r] \in 1..5
                   /\ LET w == ColumnOf(outcome.value, "week_of_month")[r]
                          day == DayOf(outcome.X.index[r])
                      IN  7 * (w - 1) < day /\ day <= 7 * w

AfterSmootherTransform ==
    outcome.call = "transform" /\ transformer.class = "GeneralGaussianSmoother"
        /\ outcome.raised = ""

\* the offset of kernel entry j (from 1): the entry of np.arange it was
\* computed from
KernelOffset(j) == KernelArange(transformer.window)[j]

\* the cell of column c of the frame of the call at date t, 0 when the
\* frame has no row of that date
ValueAtDate(t, c) ==
    LET k == Position(outcome.X.index, t)
    IN  IF k = 0 THEN Zero ELSE outcome.X.values[k][c]

\* the sum over the kernel offsets o of weight[o] times the cell of column
\* c at the date o frequency steps before the date of row r
WeightedSumOfEarlierDates(r, c) ==
    LET entries == transformer.sliding_window_.entries
    IN  [nan |-> FALSE,
         terms |-> [e \in Exponents(entries) |->
             RSum(Tabulate(Len(entries), LAMBDA j :
                 IF ~entries[j].zero /\ entries[j].exp = e
                 THEN ValueAtDate(AddSteps(outcome.X.index[r], -KernelOffset(j),
                                           transformer.freq_.days), c)
                 ELSE Zero))]]

\* the date of row r is a whole number of frequency steps after the first
\* date of the frame of the call
OnFrequencyGrid(r) ==
    \E k \in 0..(outcome.X.index[r].days - IndexMin(outcome.X.index).days) :
        outcome.X.index[r] =
            AddSteps(IndexMin(outcome.X.index), k, transformer.freq_.days)

\* the kernel has the same entry at the offsets o and -o
KernelSymmetric ==
    LET entries == transformer.sliding_window_.entries
    IN  \A j \in 1..Len(entries) :
            \E k \in 1..Len(entries) :
                KernelOffset(k) = -KernelOffset(j) /\ entries[k] = entries[j]

\* C15 as stated: every cell of the smoothed frame is the sum over the
\* kernel offsets o of weight[o] times the column's value o frequency steps
\* earlier, dates without a row counting as 0; for tails = "both" the
\* weights are symmetric around the event; the result has the index and the
\* columns of the input.
C15_SmoothedIsWeightedSum ==
    AfterSmootherTransform =>
        /\ outcome.value.index = outcome.X.index
        /\ outcome.value.columns = outcome.X.columns
        /\ \A r \in 1..Len(outcome.X.index), c \in 1..Len(outcome.X.columns) :
               outcome.value.values[r][c] = WeightedSumOfEarlierDates(r, c)
        /\ transformer.tails = "both" => KernelSymmetric

\* C15 amended: the cell is that sum on the rows whose date is a whole
\* number of frequency steps after the input's first date, and NaN on every
\* other row; for tails = "both" the weights are symmetric around the event
\* when window is odd.
C15_SmoothedIsWeightedSumOnGrid ==
    AfterSmootherTransform =>
        /\ outcome.value.index = outcome.X.index
        /\ outcome.value.columns = outcome.X.columns
        /\ \A r \in 1..Len(outcome.X.index), c \in 1..Len(outcome.X.columns) :
               outcome.value.values[r][c] =
                   IF OnFrequencyGrid(r) THEN WeightedSumOfEarlierDates(r, c)
                   ELSE SmoothedNaN
        /\ (transformer.tails = "both" /\ transformer.window % 2 = 1)
               => KernelSymmetric

\* the frame has gaps and its rows are out of order, the window is 3 with
\* both tails, and a row gets weight from the row one step earlier
C15_Witness ==
    /\ AfterSmootherTransform
    /\ transformer.tails = "both"
    /\ transformer.window = 3
    /\ outcome.X.freq = None
    /\ \E r, q \in 1..Len(outcome.X.index) :
           /\ outcome.X.index[q] = AddSteps(outcome.X.index[r], -1,
                                            transformer.freq_.days)
           /\ outcome.X.values[r][1] = Zero
           /\ outcome.X.values[q][1] # Zero
           /\ \E e \in DOMAIN outcome.value.values[r][1].terms :
                  outcome.value.values[r][1].terms[e] # Zero

AfterEncoderTransform ==
    outcome.call = "transform" /\ transformer.class = "CyclicalEncoder"
        /\ outcome.raised = ""

\* the cycle a column called col is to be encoded with: the caller's when
\* the caller supplied one for col, else the built-in one
CycleFor(col) ==
    IF col \in DOMAIN additional_cycles_passed
    THEN additional_cycles_passed[col]
    ELSE DEFAULT_CYCLES[col]

\* the columns of the frame of the call whose name is a known cycle
KnownCycleColumns ==
    SelectSeq(outcome.X.columns, LAMBDA col :
        col \in DOMAIN additional_cycles_passed \cup DOMAIN DEFAULT_CYCLES)

\* the part of the whole cycle that cell x of a column called col stands for
TurnOf(col, x) ==
    RDiv(Int2Rat(x - CycleFor(col).min),
         Int2Rat(CycleFor(col).max + 1 - CycleFor(col).min))

\* C16: a CyclicalEncoder encodes a column called c with the min and max the
\* caller supplied for c in additional_cycles, also when c is a built-in
\* cycle name, and with the built-in ones otherwise; transform adds the two
\* columns c_cos and c_sin for every input column whose name is a known
\* cycle and no other column; constructing the encoder does not modify the
\* dictionary the caller passed.
C16_CallerCyclesUsedAndKept ==
    /\ (transformer # None /\ transformer.class = "CyclicalEncoder")
           => additional_cycles = additional_cycles_passed
    /\ AfterEncoderTransform =>
           /\ {outcome.value.columns[k] : k \in 1..Len(outcome.value.columns)}
                  = {outcome.X.columns[k] : k \in 1..Len(outcome.X.columns)}
                    \cup {KnownCycleColumns[k] \o "_cos" : k \in 1..Len(KnownCycleColumns)}
                    \cup {KnownCycleColumns[k] \o "_sin" : k \in 1..Len(KnownCycleColumns)}
           /\ \A k \in 1..Len(KnownCycleColumns), r \in 1..Len(outcome.X.index) :
                  LET col == KnownCycleColumns[k]
                      turn == TurnOf(col, ColumnOf(outcome.X, col)[r])
                  IN  /\ ColumnOf(outcome.value, col \o "_cos")[r] = NpCos(turn)
                      /\ ColumnOf(outcome.value, col \o "_sin")[r] = NpSin(turn)

AfterSmootherFit ==
    outcome.call = "fit" /\ transformer.class = "GeneralGaussianSmoother"

\* C19: for every window >= 1 the fitted kernel of a GeneralGaussianSmoother
\* has window entries and a non-zero entry at offset 0; with tails =
\* "right" the entries at negative offsets are zero and the others are not,
\* with tails = "left" the entries at positive offsets are zero and the
\* others are not, with tails = "both" no entry is zero; any other tails
\* makes fit raise ValueError.
C19_KernelTails ==
    AfterSmootherFit =>
        /\ transformer.tails \notin {"left", "right", "both"}
               => IsValueError(outcome.raised)
        /\ outcome.raised = "" =>
               LET entries == transformer.sliding_window_.entries
               IN  /\ Len(entries) = transformer.window
                   /\ \E j \in 1..Len(entries) :
                          KernelOffset(j) = 0 /\ ~entries[j].zero
                   /\ \A j \in 1..Len(entries) :
                          entries[j].zero <=>
                              \/ transformer.tails = "right" /\ KernelOffset(j) < 0
                              \/ transformer.tails = "left" /\ KernelOffset(j) > 0

\* ------------------------------------------------------------------------
\* C17: what one boosting round changes
\* ------------------------------------------------------------------------
\* a step of the loop of _fit
IsBoostingRound == pc = "_fit" /\ i' = i + 1

\* h of the round about to run: the clone of the feature's configured
\* regressor fitted on the training column and the running residual
FreshModel ==
    LET feature_number == i % NumColumns(X)
    IN  FitBase(Clone(AssignedRegressor(self, feature_number + 1)),
                Column(X, feature_number), y_copy, sample_weight)

C17_Round ==
    IsBoostingRound =>
        LET j == (i % NumColumns(X)) + 1
            on_grid == PredictBase(FreshModel, self.domains_[j])
            on_column == PredictBase(FreshModel, Column(X, j - 1))
        IN  /\ self' = [self EXCEPT !.outputs_ = self'.outputs_]
            /\ Len(self'.outputs_) = Len(self.outputs_)
            /\ \A k \in 1..Len(self.outputs_) :
                  k # j => self'.outputs_[k] = self.outputs_[k]
            /\ Len(self'.outputs_[j]) = Len(self.outputs_[j])
            /\ \A g \in 1..Len(self.outputs_[j]) :
                  self'.outputs_[j][g] =
                      RAdd(self.outputs_[j][g], RMul(self.learning_rate, on_grid[g]))
            /\ Len(y_copy') = Len(y_copy)
            /\ \A r \in 1..Len(y_copy) :
                  y_copy'[r] = RSub(y_copy[r], RMul(self.learning_rate, on_column[r]))
            /\ self'.domains_ = self.domains_
            /\ self'.mean_ = self.mean_
            /\ X' = X /\ y' = y /\ sample_weight' = sample_weight
            /\ self'.base_regressor = self.base_regressor
            /\ self'.base_regressors_ = self.base_regressors_
            /\ calls'[Len(calls')].regressor = AssignedRegressor(self, j)

\* C17: a boosting round for feature j adds learning_rate times the fresh
\* model's grid predictions to curve j and subtracts learning_rate times its
\* predictions on training column j from the running residual; every other
\* curve, all grids, the mean, the caller's X, y and sample_weight and the
\* configured base regressors (cloned, never fitted) stay as they were.
C17_RoundFrame == [][C17_Round]_vars

\* two features, the fourth round done: both curves were added to twice
C17_Witness ==
    /\ pc = "_fit"
    /\ i = 3
    /\ NumColumns(X) = 2
    /\ \A j \in 1..2 : \E g \in 1..Len(self.outputs_[j]) : self.outputs_[j][g] # Zero
    /\ y_copy # VSubScaled(y, Int2Rat(1), Tabulate(Len(y), LAMBDA r : self.mean_))

\* ------------------------------------------------------------------------
\* C18: the target is the mean plus the curves plus the running residual
\* ------------------------------------------------------------------------
\* the training rows whose value in every feature is a point of its grid
RowsOnGrid ==
    {r \in 1..Len(X) :
        \A j \in 1..NumColumns(X) :
            \E k \in 1..Len(self.domains_[j]) : self.domains_[j][k] = X[r][j]}

\* the sum over the features from j on of the curve value at the grid point
\* equal to row r's value
RECURSIVE Explained(_, _)
Explained(r, j) ==
    IF j > NumColumns(X) THEN Zero
    ELSE LET k == CHOOSE g \in 1..Len(self.domains_[j]) : self.domains_[j][g] = X[r][j]
         IN  RAdd(self.outputs_[j][k], Explained(r, j + 1))

\* the state of a fit call that passed its checks, the table it was made on
\* still being the one the instance was fitted on
InOrAfterFit ==
    /\ X # <<>>
    /\ "domains_" \in self.attrs
    /\ self.n_features_in_ = NumColumns(X)
    /\ Len(self.domains_) = NumColumns(X)

\* C18: before round 0 the running residual is target - mean; after every
\* round, for each training row lying on the grid in every feature,
\* target = mean + sum of the curve values at its grid points + residual;
\* and once fit has returned, predict on such a row is target - residual.
C18_ResidualAccounts ==
    InOrAfterFit =>
        /\ (pc = "_fit" /\ i = 0) =>
               \A r \in 1..Len(y) : y_copy[r] = RSub(y[r], self.mean_)
        /\ \A r \in RowsOnGrid :
               y[r] = RAdd(RAdd(self.mean_, Explained(r, 1)), y_copy[r])
        /\ (pc = "idle" /\ result.call = "fit" /\ result.returned = "self") =>
               \A r \in RowsOnGrid :
                   LET p == Predict(self, <<X[r]>>)
                   IN  /\ p.raised = ""
                       /\ RSub(y[r], p.value[1]) = y_copy[r]

\* fit returned after three rounds on two features; a row on the grid has
\* a part explained by the curves and a residual left
C18_Witness ==
    /\ InOrAfterFit
    /\ pc = "idle" /\ result.call = "fit" /\ result.returned = "self"
    /\ NumColumns(X) = 2
    /\ i = 3
    /\ \E r \in RowsOnGrid : Explained(r, 1) # Zero /\ y_copy[r] # Zero
    /\ RowsOnGrid # 1..Len(X)

====
